---- MODULE Spec2Model ----
(***************************************************************************)
(* SAKData (include/sak_data.h): a std::unordered_map<std::string,         *)
(* boost::any> with add_copy, add_ref and the two forms of get.            *)
(*                                                                         *)
(* A boost::any is modelled by the type identifier it reports (type())     *)
(* and the value it holds.  add_copy<T> stores a T, add_ref<T> stores a    *)
(* T* (the address of the caller's object).  Memory is modelled by         *)
(* addresses: every value is an integer, a scalar in 0..MaxVal or an       *)
(* address above MaxVal (of a caller's object, or of the storage an any    *)
(* owns).                                                                  *)
(*                                                                         *)
(* Assert(cond, exc) is modelled as the checked assertion the class        *)
(* documents ("This function throws an exception if either the name does   *)
(* not exist or if the conversion fails"): when cond is false the call     *)
(* ends with exc and executes nothing after it.  A build of deal.II that   *)
(* compiles Assert out is outside this model: there a failing get runs on  *)
(* to return *p with p null.                                               *)
(*                                                                         *)
(* The callers keep their side of the contract on lifetimes: an object     *)
(* given to add_ref outlives the store, and a reference obtained from get  *)
(* is used before the next insert.                                         *)
(***************************************************************************)
EXTENDS Integers, FiniteSets

\* largest scalar value a caller's object takes
MaxVal == 1
\* deepest pointer level of a type a caller asks get for
MaxDepth == 1

\* the names the callers use
Names == {1, 2}

\* ------------------------------------------------------------------ types
BaseTypes == {"A", "B"}

Type(b, d) == [base |-> b, depth |-> d]

\* typeid(type *) for typeid(type) = t
PtrTo(t) == [base |-> t.base, depth |-> t.depth + 1]

\* typeid(void): what an empty boost::any reports
Void == Type("void", 0)

\* the types a caller instantiates get<type> with
RequestTypes == {Type(b, d) : b \in BaseTypes, d \in 0..MaxDepth}

\* ------------------------------------------------- the callers' objects
\* x1, x2 : A      y : B      p : A*  (as v_double, v_int of the usage example)
\* A and B are two unrelated classes
ExtObjs == {1, 2, 3, 4}

TypeOf(o) == CASE o = 1 -> Type("A", 0)
               [] o = 2 -> Type("A", 0)
               [] o = 3 -> Type("B", 0)
               [] o = 4 -> Type("A", 1)

\* address of a caller's object (type *ptr = &entry)
Ext(o) == MaxVal + o

\* address of the value held by the any stored under name n
Own(n) == MaxVal + Cardinality(ExtObjs) + n

IsExt(a) == a > MaxVal /\ a <= MaxVal + Cardinality(ExtObjs)

\* the values an object of type t takes: an A is a scalar, a B has a single
\* value, a pointer is the address of a caller's object of the pointee type
ValuesOf(t) == IF t.depth > 0
               THEN {Ext(o) : o \in {q \in ExtObjs : PtrTo(TypeOf(q)) = t}}
               ELSE IF t.base = "A" THEN 0..MaxVal ELSE {0}

\* ------------------------------------------------------------ boost::any
Any(t, v) == [type |-> t, held |-> v]

EmptyAny == Any(Void, 0)

\* ------------------------------------------------------ outcomes of get
Ok(a) == [kind |-> "ok", addr |-> a, name |-> 0, requested |-> Void, stored |-> Void]

ExcNameNotFound(n) ==
    [kind |-> "NameNotFound", addr |-> 0, name |-> n, requested |-> Void, stored |-> Void]

ExcTypeMismatch(req, sto) ==
    [kind |-> "TypeMismatch", addr |-> 0, name |-> 0, requested |-> req, stored |-> sto]

NoResult == [kind |-> "none", addr |-> 0, name |-> 0, requested |-> Void, stored |-> Void]

VARIABLES
    mydata,   \* the map: a function from the names present to their any
    mem,      \* the values of the callers' objects
    alive,    \* the SAKData object has not been destroyed
    ins,      \* per name, the arguments of the latest add_copy / add_ref
    last      \* the call performed last, with its outcome

vars == <<mydata, mem, alive, ins, last>>

\* -------------------------------------------------- std::unordered_map
\* m after m[n] was evaluated: operator[] default-constructs a missing entry
MapIndex(m, n) ==
    IF n \in DOMAIN m THEN m
    ELSE [k \in DOMAIN m \cup {n} |-> IF k = n THEN EmptyAny ELSE m[k]]

\* m after m[n] = a
MapAssign(m, n, a) ==
    [k \in DOMAIN m \cup {n} |-> IF k = n THEN a ELSE m[k]]

\* ---------------------------------------------------------------- memory
\* the value of the object at address a
Load(m, mm, a) == IF IsExt(a) THEN mm[a - MaxVal]
                  ELSE m[a - MaxVal - Cardinality(ExtObjs)].held

\* the callers' memory after the anys stored under the names in S were
\* destroyed (by an assignment over them, or with the map): an any deletes the
\* value it holds, and for a held pointer that is the pointer alone
M_MemAfterRelease(m, mm, S) ==
    [o \in ExtObjs |->
        IF \E n \in S \cap DOMAIN m : m[n].held = Ext(o)
        THEN (IF TypeOf(o).depth = 0 THEN 0 ELSE Ext(1))
        ELSE mm[o]]

MemAfterRelease(m, mm, S) == mm

\* ------------------------------------------------------------- add_copy
M_CopyAny(o) == Any(PtrTo(TypeOf(o)), Ext(o))

\* the any that mydata[name] = entry constructs: a copy of entry, of its type
CopyAny(o) == Any(TypeOf(o), mem[o])

\* --------------------------------------------------------------- add_ref
M_RefAny(o) == Any(TypeOf(o), mem[o])

\* type *ptr = &entry; the any holds ptr
RefAny(o) == Any(PtrTo(TypeOf(o)), Ext(o))

\* --------------------------------------------------------- get (mutable)
M_GetResult(m, n, T) ==
    LET a == MapIndex(m, n)[n] IN
    IF a.type = PtrTo(T) THEN Ok(a.held)
    ELSE IF a.type = T THEN Ok(Own(n))
    ELSE ExcTypeMismatch(T, a.type)

GetResult(m, n, T) ==
    IF n \notin DOMAIN m THEN ExcNameNotFound(n)
    ELSE LET a == MapIndex(m, n)[n] IN
         IF a.type = PtrTo(T) THEN Ok(a.held)
         ELSE IF a.type = T THEN Ok(Own(n))
         ELSE ExcTypeMismatch(T, a.type)

M_GetMap(m, n) == MapIndex(m, n)

\* the map after the mutable get: operator[] is only reached past the Assert
GetMap(m, n) == IF n \notin DOMAIN m THEN m ELSE MapIndex(m, n)

\* ----------------------------------------------------------- get (const)
M_GetConstResult(m, n, T) ==
    IF ~(n \in DOMAIN m) THEN ExcNameNotFound(n)
    ELSE IF m[n].type = T THEN Ok(Own(n))
    ELSE ExcTypeMismatch(T, m[n].type)

GetConstResult(m, n, T) ==
    IF ~(n \in DOMAIN m) THEN ExcNameNotFound(n)
    ELSE IF m[n].type = PtrTo(T) THEN Ok(m[n].held)
    ELSE IF m[n].type = T THEN Ok(Own(n))
    ELSE ExcTypeMismatch(T, m[n].type)

\* ------------------------------------------------------------------ state
NoIns == [mode |-> "none", type |-> Void, src |-> 0]

\* the arguments of the latest insert under n, NoIns when there was none
Latest(n) == IF n \in DOMAIN ins THEN ins[n] ELSE NoIns

\* the caller's object the entry under n was inserted as a reference to,
\* 0 when there is no entry under n or it was inserted by add_copy
Referred(n) == IF Latest(n).mode = "ref" THEN Latest(n).src ELSE 0

\* a call: its kind and arguments, the outcome of a get (res), the value
\* copied or written (val), the caller's object it names (obj), and for an
\* insert the object the entry it replaces referred to (old)
Call(k, n, T, r, v, o, before) ==
    [kind |-> k, name |-> n, type |-> T, res |-> r, val |-> v, obj |-> o,
     old |-> before]

Init ==
    /\ mydata = [k \in {} |-> EmptyAny]
    /\ mem = [o \in ExtObjs |-> IF TypeOf(o).depth = 0 THEN 0 ELSE Ext(1)]
    /\ alive = TRUE
    /\ ins = [k \in {} |-> NoIns]
    /\ last = Call("init", 0, Void, NoResult, 0, 0, 0)

add_copy(n, o) ==
    /\ alive
    /\ mydata' = MapAssign(mydata, n, CopyAny(o))
    /\ ins' = MapAssign(ins, n, [mode |-> "copy", type |-> TypeOf(o), src |-> o])
    /\ last' = Call("add_copy", n, TypeOf(o), NoResult, mem[o], o, Referred(n))
    /\ mem' = MemAfterRelease(mydata, mem, {n})
    /\ UNCHANGED alive

add_ref(n, o) ==
    /\ alive
    /\ mydata' = MapAssign(mydata, n, RefAny(o))
    /\ ins' = MapAssign(ins, n, [mode |-> "ref", type |-> TypeOf(o), src |-> o])
    /\ last' = Call("add_ref", n, TypeOf(o), NoResult, 0, o, Referred(n))
    /\ mem' = MemAfterRelease(mydata, mem, {n})
    /\ UNCHANGED alive

get(n, T) ==
    /\ alive
    /\ mydata' = GetMap(mydata, n)
    /\ last' = Call("get", n, T, GetResult(mydata, n, T), 0, 0, 0)
    /\ UNCHANGED <<mem, alive, ins>>

get_const(n, T) ==
    /\ alive
    /\ last' = Call("get_const", n, T, GetConstResult(mydata, n, T), 0, 0, 0)
    /\ UNCHANGED <<mydata, mem, alive, ins>>

\* the caller assigns through the type & the mutable get returned
WriteRef(v) ==
    /\ alive
    /\ last.kind \in {"get", "write_ref"}
    /\ last.res.kind = "ok"
    /\ v \in ValuesOf(last.type)
    /\ IF IsExt(last.res.addr)
       THEN /\ mem' = [mem EXCEPT ![last.res.addr - MaxVal] = v]
            /\ UNCHANGED mydata
       ELSE /\ mydata' = [mydata EXCEPT ![last.name].held = v]
            /\ UNCHANGED mem
    /\ last' = [last EXCEPT !.kind = "write_ref", !.val = v]
    /\ UNCHANGED <<alive, ins>>

\* the owner of an object assigns to it directly (v_int[0] = 7.0)
WriteExt(o, v) ==
    /\ v \in ValuesOf(TypeOf(o))
    /\ mem' = [mem EXCEPT ![o] = v]
    /\ last' = Call("write_ext", 0, TypeOf(o), NoResult, v, o, 0)
    /\ UNCHANGED <<mydata, alive, ins>>

\* ~SAKData: the map and every any in it are destroyed; an any holding a
\* pointer destroys the pointer, not what it points to
Destroy ==
    /\ alive
    /\ alive' = FALSE
    /\ mydata' = [k \in {} |-> EmptyAny]
    /\ ins' = [k \in {} |-> NoIns]
    /\ last' = Call("destroy", 0, Void, NoResult, 0, 0, 0)
    /\ mem' = MemAfterRelease(mydata, mem, DOMAIN mydata)

Next ==
    \/ \E n \in Names, o \in ExtObjs : add_ref(n, o)
    \/ \E n \in Names, o \in ExtObjs : add_copy(n, o)
    \/ \E n \in Names, T \in RequestTypes : get(n, T)
    \/ \E n \in Names, T \in RequestTypes : get_const(n, T)
    \/ \E v \in 0..(MaxVal + Cardinality(ExtObjs)) : WriteRef(v)
    \/ \E o \in ExtObjs, v \in 0..(MaxVal + Cardinality(ExtObjs)) : WriteExt(o, v)
    \/ Destroy

Spec == Init /\ [][Next]_vars

\* ------------------------------------------------------------ properties
IsInsert(c) == c.kind \in {"add_copy", "add_ref"}

\* the latest insert under the name of call c is an add_copy of c's type
OnOwned(c) == Latest(c.name).mode = "copy" /\ Latest(c.name).type = c.type

\* C1: after add_copy(v, n), get<T>(n) succeeds on the storage the store owns
\* under n and the value there equals v; and after the caller writes a value
\* through the reference get<T>(n) returned, with no insert in between, the
\* next get<T>(n) returns the same storage and the written value is there.
C1_OwnedRoundTrip ==
    /\ last.kind = "add_copy" =>
          /\ GetResult(mydata, last.name, last.type) = Ok(Own(last.name))
          /\ Load(mydata, mem, Own(last.name)) = last.val
    /\ (last.kind = "write_ref" /\ OnOwned(last)) =>
          /\ GetResult(mydata, last.name, last.type) = last.res
          /\ last.res = Ok(Own(last.name))
          /\ Load(mydata, mem, Own(last.name)) = last.val

\* a write through the reference left the owned value different from the
\* object it was copied from
C1_Witness ==
    /\ last.kind = "write_ref"
    /\ OnOwned(last)
    /\ last.val # mem[Latest(last.name).src]

\* C2: after add_ref(x, n) and as long as no insert is made under n,
\* get<T>(n) succeeds and returns x itself (so reads and writes on either
\* side are reads and writes of x).
C2_RefAliases ==
    \A n \in DOMAIN ins :
        ins[n].mode = "ref" =>
            GetResult(mydata, n, ins[n].type) = Ok(Ext(ins[n].src))

\* C3: an insert under a name already used replaces the entry: a get that
\* requests the type of the replaced entry, when it differs from the new
\* one, fails with TypeMismatch.
C3_Overwrite ==
    [][\A n \in DOMAIN ins :
          (IsInsert(last') /\ last'.name = n /\ ins[n].type # last'.type)
             => GetResult(mydata', n, ins[n].type).kind = "TypeMismatch"]_vars

\* C4: for a name no insert was made under, both forms of get fail with
\* NameNotFound carrying that name, whatever the requested type.
C4_NameNotFound ==
    /\ alive =>
         \A n \in Names \ DOMAIN ins, T \in RequestTypes :
            /\ GetResult(mydata, n, T) = ExcNameNotFound(n)
            /\ GetConstResult(mydata, n, T) = ExcNameNotFound(n)
    /\ (last.kind \in {"get", "get_const"} /\ last.name \notin DOMAIN ins) =>
         last.res = ExcNameNotFound(last.name)

\* the read-only get was called for a missing name while another is present
C4_Witness ==
    /\ last.kind = "get_const"
    /\ last.name \notin DOMAIN ins
    /\ DOMAIN ins # {}
    /\ last.type.depth = 1

\* C5: after a value of type A was inserted under n, get<B>(n) for any type
\* B different from A fails with TypeMismatch carrying B and the type
\* identifier the slot reports.
C5_TypeMismatch ==
    \A n \in DOMAIN ins, T \in RequestTypes :
        T # ins[n].type =>
            /\ n \in DOMAIN mydata
            /\ GetResult(mydata, n, T) = ExcTypeMismatch(T, mydata[n].type)

\* C6: get<T>(n) on a present name succeeds exactly when the latest insert
\* under n was made with type T (add_ref of a T object, or add_copy of a T
\* value), and fails with TypeMismatch otherwise.
C6_ExactMatch ==
    \A n \in DOMAIN ins, T \in RequestTypes :
        LET r == GetResult(mydata, n, T) IN
        /\ r.kind = "ok" <=> T = ins[n].type
        /\ r.kind # "ok" => r.kind = "TypeMismatch"

\* C7: the entry add_copy makes is an object of its own: a write by the
\* caller to the original changes neither the entry nor what get<T>(n)
\* returns, and a write through the reference get<T>(n) returned changes no
\* object of the caller; the entry add_ref makes is the original itself.
C7_CopyDistinct ==
    [][/\ last'.kind = "write_ext" =>
            \A n \in DOMAIN ins :
                ins[n].mode = "copy" =>
                    /\ GetResult(mydata', n, ins[n].type) = Ok(Own(n))
                    /\ Load(mydata', mem', Own(n)) = Load(mydata, mem, Own(n))
       /\ (last'.kind = "write_ref" /\ OnOwned(last'))
            => mem' = mem
       /\ last'.kind = "add_copy" =>
            /\ GetResult(mydata', last'.name, last'.type) = Ok(Own(last'.name))
            /\ Own(last'.name) # Ext(last'.obj)
       /\ last'.kind = "add_ref" =>
            GetResult(mydata', last'.name, last'.type) = Ok(Ext(last'.obj))
      ]_vars

\* the caller changed the original after add_copy; the copy kept the old value
C7_Witness ==
    /\ last.kind = "write_ext"
    /\ \E n \in DOMAIN ins :
          /\ ins[n].mode = "copy"
          /\ ins[n].src = last.obj
          /\ mydata[n].held # mem[last.obj]

\* the insert of call c replaces a reference entry
ReplacesRef(c) == IsInsert(c) /\ c.old # 0

C9_SameResolution ==
    alive =>
        \A n \in Names, T \in RequestTypes :
            /\ GetResult(mydata, n, T) = GetConstResult(mydata, n, T)
            /\ GetMap(mydata, n) = mydata

\* the read-only get returned a caller's object through a reference entry
C9_Witness ==
    /\ last.kind = "get_const"
    /\ last.res.kind = "ok"
    /\ IsExt(last.res.addr)
    /\ Latest(last.name).mode = "ref"

\* C10: no get changes the mapping: the names present are exactly the names
\* an insert was made under, and each slot's type is the one its latest
\* insert gave it (T for add_copy<T>, T* for add_ref<T>).
C10_GetFrame ==
    /\ DOMAIN mydata = DOMAIN ins
    /\ \A n \in DOMAIN ins :
          mydata[n].type = IF ins[n].mode = "copy" THEN ins[n].type
                           ELSE PtrTo(ins[n].type)

\* the mutable get was called for a missing name on a store that is not empty
C10_Witness ==
    /\ last.kind = "get"
    /\ last.res.kind = "NameNotFound"
    /\ DOMAIN mydata # {}

====
